---- MODULE Spec2Model ----
(***************************************************************************)
(* Model of src/src/api/routes.py: the chat endpoint (thread resolution,   *)
(* body parsing, message post, SSE response), the event translator         *)
(* (MyEventHandler and get_result) and the fetch-document endpoint.        *)
(*                                                                         *)
(* The remote agent service, the browser and the file system are the       *)
(* environment: every remote call may succeed or raise, the remote stream  *)
(* may deliver any sequence of events, end, or raise.                      *)
(***************************************************************************)
EXTENDS Integers, Sequences, FiniteSets, TLC

\* ------------------------------------------------------------------ bounds
\* Number of chat requests the clients send in one run.
MaxRequests == 2
\* Number of remote events one stream delivers before it ends or raises.
MaxEvents == 2
\* Number of file-citation annotations of one thread message.
MaxCitations == 2

\* Connection slots of the server.
Reqs == {1, 2}

\* ------------------------------------------------- Optional[...] of Python
None == <<>>
Some(x) == <<x>>
\* Truthiness of an Optional[str]: None and "" are both falsy.
Truthy(o) == o # None /\ o[1] # ""

\* ----------------------------------------------------------- environment
\* Descriptions str(e) of the exceptions the remote client raises.
Errors == {"timeout", "service unavailable"}
\* Identifier of a thread that exists at the remote service before the run.
OldThread == "thread_0"
\* Identifier the remote service gives to the n-th thread it creates.
NewThreadId(n) == "thread_" \o ToString(n)
ActiveAgentId == "asst_A"
OtherAgentId == "asst_B"
\* File ids cited by messages and the display names the service has for them.
FileId == "file_1"
FileNameOf(f) == "name_of_" \o f

NoCookies == [thread_id |-> None, agent_id |-> None]
\* Cookie headers a client may send.
CookieSets ==
    [thread_id : {None, Some(""), Some(OldThread)},
     agent_id : {None, Some(ActiveAgentId), Some(OtherAgentId)}]

\* Request bodies: not JSON, JSON but not an object, an object without a
\* "message" member, an object with one.
Bodies ==
    {[json |-> "invalid"],
     [json |-> "array"],
     [json |-> "object", members |-> {}],
     [json |-> "object", members |-> {"message"}, message |-> "hello"]}
NotRead == [json |-> "unread"]

\* ------------------------------------------------------------ SSE framing
\* serialize_sse_event: the text "data: " + json.dumps(data) + "\n\n", kept
\* as its three parts.
serialize_sse_event(data) == <<"data: ", data, "\n\n">>
\* The JSON document a frame carries.
FrameData(frame) == frame[2]

\* ------------------------------------------------------- MyEventHandler
\* Variant of on_message_delta that skips a delta without text.
on_message_delta_SkipsEmpty(delta) ==
    IF delta.text = "" THEN None
    ELSE Some(serialize_sse_event([content |-> delta.text, type |-> "message"]))

on_message_delta(delta) ==
    Some(serialize_sse_event([content |-> delta.text, type |-> "message"]))

\* get_file calls made by on_thread_message when the lookup of citation
\* number `fail` raises (fail = n + 1: none raises).
LookupCalls(message, fail) ==
    LET n == Len(message.file_citation_annotations)
        last == IF fail <= n THEN fail ELSE n
    IN  [i \in 1..last |->
            [op |-> "get_file",
             arg |-> message.file_citation_annotations[i].file_citation.file_id,
             ok |-> i # fail,
             ret |-> IF i # fail
                     THEN FileNameOf(message.file_citation_annotations[i].file_citation.file_id)
                     ELSE ""]]

\* Variant of on_thread_message without the status test of line 108.
on_thread_message_AnyStatus(message, fail) ==
    LET n == Len(message.file_citation_annotations)
        calls == LookupCalls(message, fail)
    IN  IF fail <= n \/ message.text_messages = <<>>
        THEN [ret |-> None, calls |-> calls]
        ELSE [ret |-> Some(serialize_sse_event(
                         [content |-> message.text_messages[1].text.value,
                          annotations |->
                              [i \in 1..n |->
                                  [file_citation |-> message.file_citation_annotations[i].file_citation,
                                   file_name |-> calls[i].ret]],
                          type |-> "completed_message"])),
              calls |-> calls]

\* Variant of on_thread_message that catches a failed lookup inside the loop
\* and publishes the message with the annotations enriched so far.
on_thread_message_SkipsFailedLookup(message, fail) ==
    IF message.status # "completed"
    THEN [ret |-> None, calls |-> <<>>]
    ELSE LET n == Len(message.file_citation_annotations)
             calls == LookupCalls(message, fail)
             done == IF fail <= n THEN fail - 1 ELSE n
         IN  IF message.text_messages = <<>>
             THEN [ret |-> None, calls |-> calls]
             ELSE [ret |-> Some(serialize_sse_event(
                              [content |-> message.text_messages[1].text.value,
                               annotations |->
                                   [i \in 1..done |->
                                       [file_citation |-> message.file_citation_annotations[i].file_citation,
                                        file_name |-> calls[i].ret]],
                               type |-> "completed_message"])),
                   calls |-> calls]

\* Result of on_thread_message: the returned value and the remote calls made.
on_thread_message(message, fail) ==
    IF message.status # "completed"
    THEN [ret |-> None, calls |-> <<>>]
    ELSE LET n == Len(message.file_citation_annotations)
             calls == LookupCalls(message, fail)
             annotations ==
                 [i \in 1..n |->
                     [file_citation |-> message.file_citation_annotations[i].file_citation,
                      file_name |-> calls[i].ret]]
         IN  IF fail <= n \/ message.text_messages = <<>>
             THEN [ret |-> None, calls |-> calls]
             ELSE [ret |-> Some(serialize_sse_event(
                              [content |-> message.text_messages[1].text.value,
                               annotations |-> annotations,
                               type |-> "completed_message"])),
                   calls |-> calls]

on_thread_run(run) ==
    LET run_info == "ThreadRun status: " \o run.status \o ", thread ID: " \o run.thread_id
    IN  Some(serialize_sse_event(
            [content |-> IF run.status = "failed"
                         THEN run_info \o ", error: " \o run.last_error
                         ELSE run_info,
             type |-> "thread_run"]))

on_error(data) == Some(serialize_sse_event([type |-> "stream_end"]))

\* Variant of on_done that publishes nothing.
on_done_Silent == None

on_done == Some(serialize_sse_event([type |-> "stream_end"]))

\* ------------------------------------------------------------ remote events
Citation == [file_citation |-> [file_id |-> FileId]]
CitationLists == UNION {[1..n -> {Citation}] : n \in 0..MaxCitations}
TextContent == [text |-> [value |-> "Hello there"]]

DeltaEvents == {[kind |-> "delta", text |-> t] : t \in {"", "Hel"}}
ThreadMessageEvents ==
    {[kind |-> "message", status |-> s, text_messages |-> <<TextContent>>,
      file_citation_annotations |-> <<Citation>>] : s \in {"in_progress", "incomplete"}}
    \cup
    {[kind |-> "message", status |-> "completed", text_messages |-> <<TextContent>>,
      file_citation_annotations |-> c] : c \in CitationLists}
    \cup
    {[kind |-> "message", status |-> "completed", text_messages |-> <<>>,
      file_citation_annotations |-> <<>>]}
ThreadRunEvents(t) ==
    {[kind |-> "run", status |-> "completed", thread_id |-> t, last_error |-> ""],
     [kind |-> "run", status |-> "failed", thread_id |-> t, last_error |-> "rate_limit"]}
ErrorEvents == {[kind |-> "error", data |-> "server_error"]}
DoneEvents == {[kind |-> "done"]}
\* Events whose handler MyEventHandler does not override (run steps, ...).
OtherEvents == {[kind |-> "run_step"]}
Events(t) ==
    DeltaEvents \cup ThreadMessageEvents \cup ThreadRunEvents(t)
    \cup ErrorEvents \cup DoneEvents \cup OtherEvents

\* Lookup outcomes that matter for an event: the number of the first get_file
\* call that raises, one past the last citation when none does.
FailPoints(ev) ==
    IF ev.kind = "message" THEN 1..(Len(ev.file_citation_annotations) + 1) ELSE {1}

\* The handler the stream runs for an event and what it hands to get_result.
Dispatch(ev, fail) ==
    CASE ev.kind = "delta" -> [ret |-> on_message_delta(ev), calls |-> <<>>]
      [] ev.kind = "message" -> on_thread_message(ev, fail)
      [] ev.kind = "run" -> [ret |-> on_thread_run(ev), calls |-> <<>>]
      [] ev.kind = "error" -> [ret |-> on_error(ev.data), calls |-> <<>>]
      [] ev.kind = "done" -> [ret |-> on_done, calls |-> <<>>]
      [] OTHER -> [ret |-> None, calls |-> <<>>]

\* get_result, line 203: `if event_return_val:`.
Yields(event_return_val) == event_return_val # None /\ Len(event_return_val[1]) > 0

\* Variant of the except branch that reuses the frame of on_error.
ErrorFrame_StreamEnd(e) == serialize_sse_event([type |-> "stream_end"])

\* get_result, line 210: the frame of the except branch.
ErrorFrame(e) == serialize_sse_event([type |-> "error", message |-> e])

\* Variant of lines 195-199 that opens the stream without `async with` and
\* closes it after the loop only.
StreamAfterExit_ClosedAfterLoopOnly(how) == IF how = "end" THEN "released" ELSE "open"

\* get_result, lines 195-199: `async with ... as stream` releases the stream
\* however its block is left: by the end of the loop ("end"), by an
\* exception ("raise"), or by the generator being closed ("close").
StreamAfterExit(how) == "released"

\* --------------------------------------------------------- fetch-document
\* Length of the files on disk, in bytes.
MaxFileLen == 3

\* Bytes a file may hold: a letter, CR, LF, and a byte that is not UTF-8.
InvalidByte == "0xFF"
Bytes == {"a", "\r", "\n", InvalidByte}
FileContents == UNION {[1..n -> Bytes] : n \in 0..MaxFileLen}

\* The path whose content the disk state gives, and a path with no file.
DataPath == "/data/a.md"
GonePath == "/data/gone.md"

\* JSON values of UPLOADED_FILE_MAP. An object is its set of <<name, value>>
\* members.
JsonObject(members) == [type |-> "object", members |-> members]
JsonString(s) == [type |-> "string", value |-> s]
HasMember(obj, name) == \E m \in obj.members : m[1] = name
Member(obj, name) == (CHOOSE m \in obj.members : m[1] = name)[2]

MapNames == {"a.md", "b.md"}
MapEntries ==
    {JsonObject({<<"path", JsonString(DataPath)>>}),
     JsonObject({<<"path", JsonString(GonePath)>>}),
     JsonObject({<<"size", JsonString("12")>>}),
     JsonString(DataPath)}
FileMaps ==
    UNION {{JsonObject({<<n, f[n]>> : n \in names}) : f \in [names -> MapEntries]}
           : names \in SUBSET MapNames}

\* Texts of the environment variable: not JSON, or the JSON text of a value.
InvalidJsonText == [syntax |-> "invalid"]
JsonText(v) == [syntax |-> "valid", value |-> v]
EnvValues ==
    {None, Some(InvalidJsonText), Some(JsonText([type |-> "null"])),
     Some(JsonText([type |-> "array"]))}
    \cup {Some(JsonText(m)) : m \in FileMaps}
DiskStates == {None} \cup {Some(c) : c \in FileContents}

\* Values of the file_name query parameter.
Queries == {None, Some(""), Some("a.md"), Some("b.md"), Some("other.md")}

\* json.loads: the value of a JSON text, or JSONDecodeError.
json_loads(text) ==
    IF text.syntax = "valid"
    THEN [ok |-> TRUE, value |-> text.value]
    ELSE [ok |-> FALSE, value |-> [type |-> "none"]]

\* Variant of lines 295-300 that does not read the variable and keeps the
\* default map.
LoadFileMap_Default(environ) == JsonObject({})

\* Variant of lines 295-300 without the except clause's empty map.
LoadFileMap_NoFallback(environ) ==
    LET files_env == IF environ = None THEN JsonText(JsonObject({})) ELSE environ[1]
    IN  json_loads(files_env).value

\* fetch_document, lines 295-300: the file map of this request.
LoadFileMap(environ) ==
    LET files_env == IF environ = None THEN JsonText(JsonObject({})) ELSE environ[1]
        parsed == json_loads(files_env)
    IN  IF parsed.ok THEN parsed.value ELSE JsonObject({})

\* Text mode with newline=None: "\r\n" and "\r" are read as "\n".
RECURSIVE UniversalNewlines(_)
UniversalNewlines(s) ==
    IF s = <<>> THEN <<>>
    ELSE IF s[1] = "\r"
         THEN IF Len(s) >= 2 /\ s[2] = "\n"
              THEN <<"\n">> \o UniversalNewlines(SubSeq(s, 3, Len(s)))
              ELSE <<"\n">> \o UniversalNewlines(Tail(s))
         ELSE <<s[1]>> \o UniversalNewlines(Tail(s))

\* read_file: open(path, 'r', encoding='utf-8').read() on the disk state.
read_file(path, disk_state) ==
    IF path # DataPath \/ disk_state = None
    THEN [ok |-> FALSE, error |-> "No such file or directory", data |-> <<>>]
    ELSE IF \E i \in 1..Len(disk_state[1]) : disk_state[1][i] = InvalidByte
         THEN [ok |-> FALSE, error |-> "'utf-8' codec can't decode byte", data |-> <<>>]
         ELSE [ok |-> TRUE, error |-> "", data |-> UniversalNewlines(disk_state[1])]

JSONResponse(content, status_code) ==
    [status |-> status_code, kind |-> "JSONResponse", detail |-> content, body |-> <<>>]
PlainTextResponse(data) ==
    [status |-> 200, kind |-> "PlainTextResponse", detail |-> "", body |-> data]
HTTPError(status_code, detail) ==
    [status |-> status_code, kind |-> "HTTPException", detail |-> detail, body |-> <<>>]
\* An exception no handler of the route catches.
Unhandled(exception) ==
    [status |-> 500, kind |-> "unhandled", detail |-> exception, body |-> <<>>]

\* fetch_document, lines 306-312: the entry's path is read, any failure is
\* reported as a JSON body.
ReadEntry(entry, disk_state) ==
    IF entry.type # "object"
    THEN JSONResponse("string indices must be integers", 500)
    ELSE IF ~HasMember(entry, "path")
         THEN JSONResponse("'path'", 500)
         ELSE LET got == read_file(Member(entry, "path").value, disk_state)
              IN  IF got.ok THEN PlainTextResponse(got.data)
                  ELSE JSONResponse(got.error, 500)

\* fetch_document, lines 291-312.
fetch_document(file_name, environ, disk_state) ==
    IF ~Truthy(file_name)
    THEN HTTPError(400, "file_name is required")
    ELSE LET files == LoadFileMap(environ)
         IN  IF files.type # "object"
             THEN Unhandled("AttributeError: no attribute 'keys'")
             ELSE IF ~HasMember(files, file_name[1])
                  THEN HTTPError(404, "File not found")
                  ELSE ReadEntry(Member(files, file_name[1]), disk_state)

NoFetch == [file_name |-> None, environ |-> None, response |-> [status |-> 0, kind |-> "", detail |-> "", body |-> <<>>]]

\* -------------------------------------------------------------- state
VARIABLES
    agent,        \* request.app.state.agent, fixed for the process lifetime
    env,          \* os.environ.get("UPLOADED_FILE_MAP") of the process
    nThreads,     \* remote service: number of threads created so far
    nreq,         \* number of chat requests sent so far
    jar,          \* browser: the cookies it holds (those of its last successful
                  \* response, once there is one)
    creates,      \* number of create_thread calls made so far
    pc,           \* per request: position in chat / get_result
    cookies,      \* per request: request.cookies
    body,         \* per request: the request body, once read
    thread_id,    \* per request: local thread_id after line 246
    agent_id,     \* per request: local agent_id after line 247
    user_message, \* per request: local user_message
    response,     \* per request: the HTTP response head
    frames,       \* per request: SSE frames handed to the client, in order
    trace,        \* per request: remote events consumed and what each returned
    raised,       \* per request: the exception get_result caught, if any
    calls,        \* per request: remote calls made, in order
    stream,       \* per request: the remote stream handle of get_result
    disk,         \* the file at DataPath: its bytes, or None when there is none
    fetch         \* the last fetch-document request: its file_name, the
                  \* UPLOADED_FILE_MAP value it read, and its response

chatVars ==
    <<nThreads, nreq, jar, creates, pc, cookies, body, thread_id,
      agent_id, user_message, response, frames, trace, raised, calls, stream>>
vars ==
    <<agent, env, nThreads, nreq, jar, creates, pc, cookies, body,
      thread_id, agent_id, user_message, response, frames, trace, raised,
      calls, stream, disk, fetch>>

NoResponse == [status |-> 0, detail |-> "", content_type |-> "", cookies |-> NoCookies]
\* raise HTTPException(status_code=..., detail=...)
HTTPException(status_code, detail) ==
    [status |-> status_code, detail |-> detail,
     content_type |-> "application/json", cookies |-> NoCookies]

\* Outcomes of one remote call.
RemoteOutcomes ==
    {[ok |-> TRUE, error |-> ""]} \cup {[ok |-> FALSE, error |-> e] : e \in Errors}

Call(op, arg, out, ret) ==
    [op |-> op, arg |-> arg, ok |-> out.ok, ret |-> IF out.ok THEN ret ELSE ""]

\* Variant of line 236 that does not compare the agent.
ReusesThread_IgnoresAgent(c, ag) == Truthy(c.thread_id)

\* chat, line 236: `if thread_id and agent_id == agent.id`.
ReusesThread(c, ag) == Truthy(c.thread_id) /\ c.agent_id = Some(ag.id)

\* chat, lines 236-241: the remote call that resolves the thread.
ThreadCall(c, ag, n, out) ==
    IF ReusesThread(c, ag)
    THEN Call("get_thread", c.thread_id[1], out, c.thread_id[1])
    ELSE Call("create_thread", "", out, NewThreadId(n + 1))

\* chat, lines 250-251: user_data.get('message', '') of the parsed body; the
\* result is None when request.json() or .get raises.
UserMessage(b) ==
    CASE b.json = "invalid" -> None
      [] b.json = "array" -> None
      [] b.json = "object" -> IF "message" \in b.members THEN Some(b.message) ELSE Some("")

\* Variant of lines 276-277 that sets the thread cookie only.
StreamingResponse_NoAgentCookie(t, a) ==
    [status |-> 200, detail |-> "", content_type |-> "text/event-stream",
     cookies |-> [thread_id |-> Some(t), agent_id |-> None]]

\* chat, lines 267-277: the streaming response and its two cookies.
StreamingResponse(t, a) ==
    [status |-> 200, detail |-> "", content_type |-> "text/event-stream",
     cookies |-> [thread_id |-> Some(t), agent_id |-> Some(a)]]

Init ==
    /\ agent = [id |-> ActiveAgentId]
    /\ env = None
    /\ disk = None
    /\ nThreads = 0
    /\ nreq = 0
    /\ jar \in CookieSets
    /\ creates = 0
    /\ pc = [r \in Reqs |-> "idle"]
    /\ cookies = [r \in Reqs |-> NoCookies]
    /\ body = [r \in Reqs |-> NotRead]
    /\ thread_id = [r \in Reqs |-> None]
    /\ agent_id = [r \in Reqs |-> None]
    /\ user_message = [r \in Reqs |-> None]
    /\ response = [r \in Reqs |-> NoResponse]
    /\ frames = [r \in Reqs |-> <<>>]
    /\ trace = [r \in Reqs |-> <<>>]
    /\ raised = [r \in Reqs |-> None]
    /\ calls = [r \in Reqs |-> <<>>]
    /\ stream = [r \in Reqs |-> "none"]
    /\ fetch = NoFetch

\* The browser posts a chat message once its previous response is complete,
\* with the cookies it holds: those of its last successful response, or the
\* ones it started with (none, stale or tampered ones).
BrowserSend(r) ==
    /\ nreq < MaxRequests
    /\ \A q \in Reqs : pc[q] = "idle"
    /\ \A q \in Reqs : q >= r
    /\ cookies' = [cookies EXCEPT ![r] = jar]
    /\ pc' = [pc EXCEPT ![r] = "resolve"]
    /\ nreq' = nreq + 1
    /\ UNCHANGED <<agent, env, disk, nThreads, jar, creates, body, thread_id,
                   agent_id, user_message, response, frames, trace, raised, calls,
                   stream, fetch>>

\* chat, lines 232-247.
ResolveThread(r) ==
    /\ pc[r] = "resolve"
    /\ \E out \in RemoteOutcomes :
        LET call == ThreadCall(cookies[r], agent, nThreads, out)
        IN  /\ calls' = [calls EXCEPT ![r] = Append(@, call)]
            /\ creates' = IF call.op = "create_thread" THEN creates + 1 ELSE creates
            /\ nThreads' = IF call.op = "create_thread" /\ out.ok
                           THEN nThreads + 1 ELSE nThreads
            /\ IF out.ok
               THEN /\ thread_id' = [thread_id EXCEPT ![r] = Some(call.ret)]
                    /\ agent_id' = [agent_id EXCEPT ![r] = Some(agent.id)]
                    /\ pc' = [pc EXCEPT ![r] = "parse"]
                    /\ UNCHANGED response
               ELSE /\ response' = [response EXCEPT ![r] =
                            HTTPException(400, "Thread error: " \o out.error)]
                    /\ pc' = [pc EXCEPT ![r] = "failed"]
                    /\ UNCHANGED <<thread_id, agent_id>>
    /\ UNCHANGED <<agent, env, disk, nreq, jar, cookies, body, user_message,
                   frames, trace, raised, stream, fetch>>

\* chat, lines 249-254.
ParseBody(r) ==
    /\ pc[r] = "parse"
    /\ \E b \in Bodies :
        /\ body' = [body EXCEPT ![r] = b]
        /\ IF UserMessage(b) # None
           THEN /\ user_message' = [user_message EXCEPT ![r] = UserMessage(b)]
                /\ pc' = [pc EXCEPT ![r] = "post"]
                /\ UNCHANGED response
           ELSE /\ response' = [response EXCEPT ![r] =
                        HTTPException(400, "Invalid JSON: " \o b.json)]
                /\ pc' = [pc EXCEPT ![r] = "failed"]
                /\ UNCHANGED user_message
    /\ UNCHANGED <<agent, env, disk, nThreads, nreq, jar, creates, cookies,
                   thread_id, agent_id, frames, trace, raised, calls, stream, fetch>>

\* Variant of lines 256-265 that logs a failed post and goes on to stream.
PostMessage_ContinuesAfterFailure(r) ==
    /\ pc[r] = "post"
    /\ \E out \in RemoteOutcomes :
        /\ calls' = [calls EXCEPT ![r] =
                Append(@, [op |-> "create_message", arg |-> thread_id[r][1],
                           ok |-> out.ok, ret |-> "",
                           role |-> "user", content |-> user_message[r][1]])]
        /\ response' = [response EXCEPT ![r] =
                StreamingResponse(thread_id[r][1], agent_id[r][1])]
        /\ jar' = response'[r].cookies
        /\ pc' = [pc EXCEPT ![r] = "start"]
        /\ cookies' = [cookies EXCEPT ![r] = NoCookies]
        /\ body' = [body EXCEPT ![r] = NotRead]
        /\ user_message' = [user_message EXCEPT ![r] = None]
    /\ UNCHANGED <<agent, env, disk, nThreads, nreq, creates, thread_id,
                   agent_id, frames, trace, raised, stream, fetch>>

\* chat, lines 256-278. On success the handler returns: the request and the
\* handler's locals other than the arguments of get_result go out of scope,
\* and the browser stores the cookies of the response head.
PostMessage(r) ==
    /\ pc[r] = "post"
    /\ \E out \in RemoteOutcomes :
        /\ calls' = [calls EXCEPT ![r] =
                Append(@, [op |-> "create_message", arg |-> thread_id[r][1],
                           ok |-> out.ok, ret |-> "",
                           role |-> "user", content |-> user_message[r][1]])]
        /\ IF out.ok
           THEN /\ response' = [response EXCEPT ![r] =
                        StreamingResponse(thread_id[r][1], agent_id[r][1])]
                /\ jar' = response'[r].cookies
                /\ pc' = [pc EXCEPT ![r] = "start"]
                /\ cookies' = [cookies EXCEPT ![r] = NoCookies]
                /\ body' = [body EXCEPT ![r] = NotRead]
                /\ user_message' = [user_message EXCEPT ![r] = None]
           ELSE /\ response' = [response EXCEPT ![r] =
                        HTTPException(500, "Message creation error: " \o out.error)]
                /\ pc' = [pc EXCEPT ![r] = "failed"]
                /\ UNCHANGED <<jar, cookies, body, user_message>>
    /\ UNCHANGED <<agent, env, disk, nThreads, nreq, creates, thread_id,
                   agent_id, frames, trace, raised, stream, fetch>>

\* Variant of get_result that takes the thread from state shared by all
\* requests, which holds the thread created last.
CreateStream_SharedThread(r) ==
    /\ pc[r] = "start"
    /\ \E out \in RemoteOutcomes :
        LET shared == IF nThreads > 0 THEN NewThreadId(nThreads) ELSE thread_id[r][1]
        IN  /\ calls' = [calls EXCEPT ![r] =
                    Append(@, Call("create_stream", shared, out, shared))]
            /\ IF out.ok
               THEN /\ pc' = [pc EXCEPT ![r] = "streaming"]
                    /\ stream' = [stream EXCEPT ![r] = "open"]
                    /\ UNCHANGED <<frames, raised>>
               ELSE /\ frames' = [frames EXCEPT ![r] = Append(@, ErrorFrame(out.error))]
                    /\ raised' = [raised EXCEPT ![r] = Some(out.error)]
                    /\ pc' = [pc EXCEPT ![r] = "closed"]
                    /\ UNCHANGED stream
    /\ UNCHANGED <<agent, env, disk, nThreads, nreq, jar, creates, cookies, body,
                   thread_id, agent_id, user_message, response, trace, fetch>>

\* get_result, lines 193-200 and 208-210: create_stream, or its failure.
CreateStream(r) ==
    /\ pc[r] = "start"
    /\ \E out \in RemoteOutcomes :
        /\ calls' = [calls EXCEPT ![r] =
                Append(@, Call("create_stream", thread_id[r][1], out, thread_id[r][1]))]
        /\ IF out.ok
           THEN /\ pc' = [pc EXCEPT ![r] = "streaming"]
                /\ stream' = [stream EXCEPT ![r] = "open"]
                /\ UNCHANGED <<frames, raised>>
           ELSE /\ frames' = [frames EXCEPT ![r] = Append(@, ErrorFrame(out.error))]
                /\ raised' = [raised EXCEPT ![r] = Some(out.error)]
                /\ pc' = [pc EXCEPT ![r] = "closed"]
                /\ UNCHANGED stream
    /\ UNCHANGED <<agent, env, disk, nThreads, nreq, jar, creates, cookies, body,
                   thread_id, agent_id, user_message, response, trace, fetch>>

\* Variant of lines 201-207 that holds a translated chunk back until the
\* next event arrives.
NextEvent_Lagging(r) ==
    /\ pc[r] = "streaming"
    /\ Len(trace[r]) < MaxEvents
    /\ \E ev \in Events(thread_id[r][1]) : \E fail \in FailPoints(ev) :
        LET res == Dispatch(ev, fail)
            held == IF trace[r] = <<>> THEN None ELSE trace[r][Len(trace[r])].ret
        IN  /\ trace' = [trace EXCEPT ![r] =
                    Append(@, [event |-> ev, ret |-> res.ret])]
            /\ calls' = [calls EXCEPT ![r] = @ \o res.calls]
            /\ frames' = [frames EXCEPT ![r] =
                    IF Yields(held) THEN Append(@, held[1]) ELSE @]
    /\ UNCHANGED <<agent, env, disk, nThreads, nreq, jar, creates, pc, cookies,
                   body, thread_id, agent_id, user_message, response, raised,
                   stream, fetch>>

\* get_result, lines 201-207: one turn of `async for event in stream`.
NextEvent(r) ==
    /\ pc[r] = "streaming"
    /\ Len(trace[r]) < MaxEvents
    /\ \E ev \in Events(thread_id[r][1]) : \E fail \in FailPoints(ev) :
        LET res == Dispatch(ev, fail)
            event_return_val == res.ret
        IN  /\ trace' = [trace EXCEPT ![r] =
                    Append(@, [event |-> ev, ret |-> event_return_val])]
            /\ calls' = [calls EXCEPT ![r] = @ \o res.calls]
            /\ frames' = [frames EXCEPT ![r] =
                    IF Yields(event_return_val) THEN Append(@, event_return_val[1]) ELSE @]
    /\ UNCHANGED <<agent, env, disk, nThreads, nreq, jar, creates, pc, cookies,
                   body, thread_id, agent_id, user_message, response, raised,
                   stream, fetch>>

\* get_result, line 201: the stream is exhausted and the generator returns.
StreamEnd(r) ==
    /\ pc[r] = "streaming"
    /\ pc' = [pc EXCEPT ![r] = "closed"]
    /\ stream' = [stream EXCEPT ![r] = StreamAfterExit("end")]
    /\ UNCHANGED <<agent, env, disk, nThreads, nreq, jar, creates, cookies, body,
                   thread_id, agent_id, user_message, response, frames, trace,
                   raised, calls, fetch>>

\* get_result, lines 208-210: reading the stream raises.
StreamRaise(r) ==
    /\ pc[r] = "streaming"
    /\ \E e \in Errors :
        /\ frames' = [frames EXCEPT ![r] = Append(@, ErrorFrame(e))]
        /\ raised' = [raised EXCEPT ![r] = Some(e)]
    /\ pc' = [pc EXCEPT ![r] = "closed"]
    /\ stream' = [stream EXCEPT ![r] = StreamAfterExit("raise")]
    /\ UNCHANGED <<agent, env, disk, nThreads, nreq, jar, creates, cookies, body,
                   thread_id, agent_id, user_message, response, trace, calls, fetch>>

\* The client disconnects while the response body is being streamed: the
\* generator is closed where it is suspended (the await of line 195, the
\* `async for` of line 201 or the yield of line 205). What is thrown into it
\* (CancelledError, GeneratorExit) is no Exception, so line 208 does not
\* catch it and no frame follows; a stream already opened leaves its
\* `async with` block.
Disconnect(r) ==
    /\ pc[r] \in {"start", "streaming"}
    /\ pc' = [pc EXCEPT ![r] = "disconnected"]
    /\ stream' = [stream EXCEPT ![r] =
            IF @ = "open" THEN StreamAfterExit("close") ELSE @]
    /\ UNCHANGED <<agent, env, disk, nThreads, nreq, jar, creates, cookies, body,
                   thread_id, agent_id, user_message, response, frames, trace,
                   raised, calls, fetch>>

\* The response is complete (the body of a 200, or a 4xx/5xx) or abandoned,
\* and the connection's state is discarded.
Release(r) ==
    /\ pc[r] \in {"closed", "failed", "disconnected"}
    /\ pc' = [pc EXCEPT ![r] = "idle"]
    /\ cookies' = [cookies EXCEPT ![r] = NoCookies]
    /\ body' = [body EXCEPT ![r] = NotRead]
    /\ thread_id' = [thread_id EXCEPT ![r] = None]
    /\ agent_id' = [agent_id EXCEPT ![r] = None]
    /\ user_message' = [user_message EXCEPT ![r] = None]
    /\ response' = [response EXCEPT ![r] = NoResponse]
    /\ frames' = [frames EXCEPT ![r] = <<>>]
    /\ trace' = [trace EXCEPT ![r] = <<>>]
    /\ raised' = [raised EXCEPT ![r] = None]
    /\ calls' = [calls EXCEPT ![r] = <<>>]
    /\ stream' = [stream EXCEPT ![r] = "none"]
    /\ UNCHANGED <<agent, env, disk, nThreads, nreq, jar, creates, fetch>>

Next ==
    \E r \in Reqs :
        \/ BrowserSend(r)
        \/ ResolveThread(r)
        \/ ParseBody(r)
        \/ PostMessage(r)
        \/ CreateStream(r)
        \/ NextEvent(r)
        \/ StreamEnd(r)
        \/ StreamRaise(r)
        \/ Disconnect(r)
        \/ Release(r)

Spec == Init /\ [][Next]_vars

\* ------------------------------------------------- simultaneous requests
\* A browser that holds no cookies yet.
InitTwo ==
    /\ agent = [id |-> ActiveAgentId]
    /\ env = None
    /\ disk = None
    /\ nThreads = 0
    /\ nreq = 0
    /\ jar = NoCookies
    /\ creates = 0
    /\ pc = [r \in Reqs |-> "idle"]
    /\ cookies = [r \in Reqs |-> NoCookies]
    /\ body = [r \in Reqs |-> NotRead]
    /\ thread_id = [r \in Reqs |-> None]
    /\ agent_id = [r \in Reqs |-> None]
    /\ user_message = [r \in Reqs |-> None]
    /\ response = [r \in Reqs |-> NoResponse]
    /\ frames = [r \in Reqs |-> <<>>]
    /\ trace = [r \in Reqs |-> <<>>]
    /\ raised = [r \in Reqs |-> None]
    /\ calls = [r \in Reqs |-> <<>>]
    /\ stream = [r \in Reqs |-> "none"]
    /\ fetch = NoFetch

\* Two tabs of the browser post a chat message at the same moment, both with
\* the cookies the browser holds; the server runs one chat task for each.
SendBoth ==
    /\ nreq = 0
    /\ \A q \in Reqs : pc[q] = "idle"
    /\ cookies' = [r \in Reqs |-> jar]
    /\ pc' = [r \in Reqs |-> "resolve"]
    /\ nreq' = nreq + Cardinality(Reqs)
    /\ UNCHANGED <<agent, env, disk, nThreads, jar, creates, body, thread_id,
                   agent_id, user_message, response, frames, trace, raised, calls,
                   stream, fetch>>

\* Remote events consumed by the requests in flight.
EventsInFlight == Len(trace[1]) + Len(trace[2])

\* The two streams deliver events of every kind but thread messages.
NoThreadMessages ==
    \A r \in Reqs : \A i \in 1..Len(trace[r]) : trace[r][i].event.kind # "message"

\* A JSON object posted by the two tabs has a message member.
BodiesCarryMessage ==
    \A r \in Reqs : body[r].json = "object" => "message" \in body[r].members

\* The tasks of the two requests interleave at every await; the remote
\* service delivers at most MaxEvents events to the two streams together and
\* fewer than that to each.
NextTwo ==
    /\ \/ SendBoth
       \/ \E r \in Reqs :
            \/ ResolveThread(r)
            \/ ParseBody(r)
            \/ PostMessage(r)
            \/ CreateStream(r)
            \/ NextEvent(r)
            \/ StreamEnd(r)
            \/ StreamRaise(r)
            \/ Disconnect(r)
    /\ EventsInFlight' <= MaxEvents
    /\ \A r \in Reqs : Len(trace'[r]) < MaxEvents
    /\ NoThreadMessages'
    /\ BodiesCarryMessage'

SpecTwo == InitTwo /\ [][NextTwo]_vars

\* ------------------------------------------------- fetch-document requests
InitFetch ==
    /\ agent = [id |-> ActiveAgentId]
    /\ env \in EnvValues
    /\ disk \in DiskStates
    /\ nThreads = 0
    /\ nreq = 0
    /\ jar = NoCookies
    /\ creates = 0
    /\ pc = [r \in Reqs |-> "idle"]
    /\ cookies = [r \in Reqs |-> NoCookies]
    /\ body = [r \in Reqs |-> NotRead]
    /\ thread_id = [r \in Reqs |-> None]
    /\ agent_id = [r \in Reqs |-> None]
    /\ user_message = [r \in Reqs |-> None]
    /\ response = [r \in Reqs |-> NoResponse]
    /\ frames = [r \in Reqs |-> <<>>]
    /\ trace = [r \in Reqs |-> <<>>]
    /\ raised = [r \in Reqs |-> None]
    /\ calls = [r \in Reqs |-> <<>>]
    /\ stream = [r \in Reqs |-> "none"]
    /\ fetch = NoFetch

\* GET /fetch-document?file_name=...
FetchDocument ==
    /\ \E q \in Queries :
        fetch' = [file_name |-> q, environ |-> env,
                  response |-> fetch_document(q, env, disk)]
    /\ UNCHANGED <<agent, env, disk>>
    /\ UNCHANGED chatVars

NextFetch == FetchDocument

SpecFetch == InitFetch /\ [][NextFetch]_vars

\* ------------------------------------- fetch-document, environment changing
\* The process starts with UPLOADED_FILE_MAP unset.
StartupEnv == None

\* The file at DataPath is absent, empty, or one byte long.
InitEnv ==
    /\ agent = [id |-> ActiveAgentId]
    /\ env = StartupEnv
    /\ disk \in {d \in DiskStates : d = None \/ Len(d[1]) <= 1}
    /\ nThreads = 0
    /\ nreq = 0
    /\ jar = NoCookies
    /\ creates = 0
    /\ pc = [r \in Reqs |-> "idle"]
    /\ cookies = [r \in Reqs |-> NoCookies]
    /\ body = [r \in Reqs |-> NotRead]
    /\ thread_id = [r \in Reqs |-> None]
    /\ agent_id = [r \in Reqs |-> None]
    /\ user_message = [r \in Reqs |-> None]
    /\ response = [r \in Reqs |-> NoResponse]
    /\ frames = [r \in Reqs |-> <<>>]
    /\ trace = [r \in Reqs |-> <<>>]
    /\ raised = [r \in Reqs |-> None]
    /\ calls = [r \in Reqs |-> <<>>]
    /\ stream = [r \in Reqs |-> "none"]
    /\ fetch = NoFetch

\* The value of UPLOADED_FILE_MAP in os.environ changes while the process
\* runs.
SetEnv ==
    /\ \E e \in EnvValues \ {env} : env' = e
    /\ UNCHANGED <<agent, disk, fetch>>
    /\ UNCHANGED chatVars

NextEnv == FetchDocument \/ SetEnv

SpecEnv == InitEnv /\ [][NextEnv]_vars

\* ------------------------------------------------------------ properties
Last(seq) == seq[Len(seq)]
FrameType(frame) == FrameData(frame).type
\* Positions of the calls of one remote operation in a request's call log.
CallsOf(r, op) == {i \in 1..Len(calls[r]) : calls[r][i].op = op}
ThreadCalls(r) == CallsOf(r, "get_thread") \cup CallsOf(r, "create_thread")
\* The request's cookie header and body are known to the handler.
Resolved(r) == pc[r] \in {"parse", "post", "failed"} /\ calls[r] # <<>>

\* C1 as claimed: whenever thread resolution and message post succeeded and
\* the response body is complete, the body is not empty and its last frame
\* is of type "stream_end".
C1_LastFrameIsStreamEnd ==
    \A r \in Reqs :
        pc[r] = "closed" =>
            /\ frames[r] # <<>>
            /\ FrameType(Last(frames[r])) = "stream_end"

\* C1 as amended: the complete response body is a finite sequence of frames
\* (at most one per remote event, plus one); when stream creation or
\* consumption raised, its last frame is of type "error"; when nothing raised
\* and the last remote event was done or a stream-level error, its last frame
\* is of type "stream_end".
C1_TerminalFrame ==
    \A r \in Reqs :
        pc[r] = "closed" =>
            /\ Len(frames[r]) <= Len(trace[r]) + 1
            /\ raised[r] # None =>
                /\ frames[r] # <<>>
                /\ FrameType(Last(frames[r])) = "error"
            /\ (/\ raised[r] = None
                /\ trace[r] # <<>>
                /\ Last(trace[r]).event.kind \in {"done", "error"}) =>
                /\ frames[r] # <<>>
                /\ FrameType(Last(frames[r])) = "stream_end"

\* A stream that delivered a delta and then done, and ended without raising.
C1_Witness ==
    \E r \in Reqs :
        /\ pc[r] = "closed"
        /\ raised[r] = None
        /\ Len(trace[r]) = 2
        /\ trace[r][1].event.kind = "delta"
        /\ trace[r][2].event.kind = "done"
        /\ Len(frames[r]) = 2

\* What C2 says about the messages, stream and cookie of request r once its
\* thread is resolved to t.
UsesThread(r, t) ==
    /\ \A i \in CallsOf(r, "create_message") \cup CallsOf(r, "create_stream") :
        calls[r][i].arg = t
    /\ response[r].status = 200 => response[r].cookies.thread_id = Some(t)

\* C2 as claimed: with both cookies present and agent_id equal to the active
\* agent's id, create_thread is not called and messages go to thread T;
\* otherwise create_thread is called exactly once and its thread is the one
\* used.
C2_CookiesPresent ==
    \A r \in Reqs :
        Resolved(r) =>
            IF /\ cookies[r].thread_id # None
               /\ cookies[r].agent_id = Some(agent.id)
            THEN /\ CallsOf(r, "create_thread") = {}
                 /\ UsesThread(r, cookies[r].thread_id[1])
            ELSE /\ Cardinality(CallsOf(r, "create_thread")) = 1
                 /\ calls[r][1].ok => UsesThread(r, calls[r][1].ret)

\* C2 as amended: with a non-empty thread_id cookie T and agent_id equal to
\* the active agent's id, create_thread is not called, get_thread(T) is, and
\* messages go to T; with a cookie absent, thread_id empty, or another
\* agent_id, create_thread is called exactly once and get_thread never. In
\* every request the thread resolved by the first call is the only one
\* resolved and is the one used for the message, the stream and the cookie.
C2_ThreadReuse ==
    \A r \in Reqs :
        /\ Resolved(r) =>
            IF /\ Truthy(cookies[r].thread_id)
               /\ cookies[r].agent_id = Some(agent.id)
            THEN /\ CallsOf(r, "create_thread") = {}
                 /\ calls[r][1].op = "get_thread"
                 /\ calls[r][1].arg = cookies[r].thread_id[1]
                 /\ UsesThread(r, cookies[r].thread_id[1])
            ELSE /\ Cardinality(CallsOf(r, "create_thread")) = 1
                 /\ CallsOf(r, "get_thread") = {}
        /\ calls[r] # <<>> =>
            /\ ThreadCalls(r) = {1}
            /\ calls[r][1].ok => UsesThread(r, calls[r][1].ret)
            /\ ~calls[r][1].ok => Len(calls[r]) = 1

\* A request with matching cookies whose thread was retrieved, not created.
C2_Witness ==
    \E r \in Reqs :
        /\ pc[r] = "post"
        /\ cookies[r] = [thread_id |-> Some(OldThread), agent_id |-> Some(ActiveAgentId)]
        /\ calls[r][1].op = "get_thread"
        /\ thread_id[r] = Some(OldThread)

\* C3: a request whose body is not JSON is answered with 400 and no remote
\* call has been made for it when the 400 is produced.
C3_MalformedJsonNoRemoteCall ==
    \A r \in Reqs :
        body[r].json = "invalid" =>
            /\ response[r].status = 400
            /\ calls[r] = <<>>

\* C4: a request whose JSON body has no message member never has
\* create_message called, and its answer, once produced, is a 4xx.
C4_MissingMessageRejected ==
    \A r \in Reqs :
        (body[r].json = "object" /\ "message" \notin body[r].members) =>
            /\ CallsOf(r, "create_message") = {}
            /\ response[r].status # 0 => response[r].status \in 400..499

\* The file map C5 and C6 speak of: the object UPLOADED_FILE_MAP holds, the
\* empty map when the variable is unset or is not JSON.
HoldsFileMap(environ) ==
    \/ environ = None
    \/ environ[1].syntax = "invalid"
    \/ environ[1].value.type = "object"
ClaimedFileMap(environ) ==
    IF environ # None /\ environ[1].syntax = "valid"
    THEN environ[1].value
    ELSE JsonObject({})
\* The mapped path of a name can be read: the entry has a path, the path is
\* DataPath, a file is there and its bytes are UTF-8.
Readable(entry, disk_state) ==
    /\ entry.type = "object"
    /\ HasMember(entry, "path")
    /\ Member(entry, "path").value = DataPath
    /\ disk_state # None
    /\ \A i \in 1..Len(disk_state[1]) : disk_state[1][i] # InvalidByte

\* C5: fetch_document answers 400 when file_name is missing or empty,
\* otherwise 404 when file_name is not a key of the file map, otherwise 500
\* with a JSON error body when the mapped path cannot be read, otherwise 200
\* with the file's contents unchanged as plain text.
C5_FourOutcomes ==
    (fetch.response.status # 0 /\ HoldsFileMap(env)) =>
        LET files == ClaimedFileMap(env)
            answer == fetch.response
        IN  IF ~Truthy(fetch.file_name)
            THEN answer.status = 400
            ELSE IF ~HasMember(files, fetch.file_name[1])
                 THEN answer.status = 404
                 ELSE IF ~Readable(Member(files, fetch.file_name[1]), disk)
                      THEN answer.status = 500 /\ answer.kind = "JSONResponse"
                      ELSE /\ answer.status = 200
                           /\ answer.kind = "PlainTextResponse"
                           /\ answer.body = disk[1]

IsMessageFrame(frame) == FrameType(frame) = "message"
IsDeltaEntry(entry) == entry.event.kind = "delta"

\* C7: the frames of type "message" of a response are, in order, one per
\* delta event consumed, each with that delta's text as its content, the
\* empty text included.
C7_DeltaYieldsOneMessageFrame ==
    \A r \in Reqs :
        LET messages == SelectSeq(frames[r], IsMessageFrame)
            deltas == SelectSeq(trace[r], IsDeltaEntry)
        IN  /\ Len(messages) = Len(deltas)
            /\ \A i \in 1..Len(deltas) :
                /\ FrameData(messages[i]).content = deltas[i].event.text
                /\ messages[i][1] = "data: "
                /\ messages[i][3] = "\n\n"

\* Two deltas consumed, the first with an empty text, two message frames.
C7_Witness ==
    \E r \in Reqs :
        /\ Len(trace[r]) = 2
        /\ trace[r][1].event = [kind |-> "delta", text |-> ""]
        /\ trace[r][2].event = [kind |-> "delta", text |-> "Hel"]
        /\ Len(frames[r]) = 2
        /\ FrameData(frames[r][1]).content = ""

\* The step consumes one more event of request r, a thread message whose
\* status is not "completed".
ConsumesUnfinishedMessage(r) ==
    /\ Len(trace'[r]) = Len(trace[r]) + 1
    /\ Last(trace'[r]).event.kind = "message"
    /\ Last(trace'[r]).event.status # "completed"

\* C8: consuming a thread message whose status is not "completed" adds no
\* frame, makes no remote call (no get_file) and leaves the stream open for
\* the next event.
C8_UnfinishedMessageYieldsNothing ==
    [][\A r \in Reqs :
        ConsumesUnfinishedMessage(r) =>
            /\ frames'[r] = frames[r]
            /\ calls'[r] = calls[r]
            /\ pc'[r] = "streaming"]_vars

\* An unfinished message with a citation was consumed without a frame or a
\* lookup, and the next event was translated.
C8_Witness ==
    \E r \in Reqs :
        /\ Len(trace[r]) = 2
        /\ trace[r][1].event.kind = "message"
        /\ trace[r][1].event.status = "in_progress"
        /\ trace[r][1].event.file_citation_annotations # <<>>
        /\ trace[r][2].event.kind = "delta"
        /\ Len(frames[r]) = 1
        /\ CallsOf(r, "get_file") = {}

ErrorFrames(r) == {i \in 1..Len(frames[r]) : FrameType(frames[r][i]) = "error"}

\* C9: when stream creation or consumption raised, the response holds
\* exactly one frame of type "error", it carries the error's description, it
\* is the last frame, the response is complete, and create_stream was called
\* once; a response for which nothing raised holds no "error" frame.
C9_SingleErrorFrameNoRetry ==
    \A r \in Reqs :
        /\ Cardinality(CallsOf(r, "create_stream")) <= 1
        /\ raised[r] = None => ErrorFrames(r) = {}
        /\ raised[r] # None =>
            /\ pc[r] = "closed"
            /\ ErrorFrames(r) = {Len(frames[r])}
            /\ FrameData(Last(frames[r])) = [type |-> "error", message |-> raised[r][1]]
            /\ Cardinality(CallsOf(r, "create_stream")) = 1

\* Consumption raised after two translated events.
C9_Witness ==
    \E r \in Reqs :
        /\ raised[r] = Some("timeout")
        /\ Len(trace[r]) = 2
        /\ Len(frames[r]) = 3
        /\ calls[r][Len(calls[r])].op = "create_stream"
        /\ calls[r][Len(calls[r])].ok

\* What C10 says about the cookies of every response.
ResponseCookies ==
    \A r \in Reqs :
        /\ response[r].status = 200 =>
            /\ \E i \in CallsOf(r, "create_message") :
                /\ calls[r][i].ok
                /\ response[r].cookies.thread_id = Some(calls[r][i].arg)
            /\ response[r].cookies.agent_id = Some(agent.id)
        /\ response[r].status \in {400, 500} => response[r].cookies = NoCookies

\* The browser holds the cookies of a successful response of the active
\* agent.
HoldsSessionCookies ==
    /\ Truthy(jar.thread_id)
    /\ jar.agent_id = Some(agent.id)

\* C10 as claimed: for a browser that started without cookies and sends back
\* the cookies of its last successful response, create_thread is called at
\* most once; successful responses set both cookies and failed ones none.
\* (The browser holds no cookies only if it started without any and no
\* response has succeeded yet.)
C10_CreatedAtMostOnce ==
    /\ (jar = NoCookies \/ HoldsSessionCookies) => creates <= 1
    /\ ResponseCookies

\* C10 as amended: for a browser that sends back the cookies of its last
\* successful response, no create_thread call is made once a response has
\* succeeded; before that, every request of a browser without cookies makes
\* one. Successful responses set thread_id to the thread the message was
\* posted to and agent_id to the active agent's id, and failed ones set no
\* cookie.
C10_NoCreateAfterSuccess ==
    /\ []ResponseCookies
    /\ [](jar = NoCookies =>
            creates = nreq - Cardinality({r \in Reqs : pc[r] = "resolve"}))
    /\ [][HoldsSessionCookies => (creates' = creates /\ HoldsSessionCookies')]_vars

\* The second request of a browser resumed the thread of its first one.
C10_Witness ==
    \E r \in Reqs :
        /\ nreq = 2
        /\ creates = 1
        /\ pc[r] = "start"
        /\ calls[r][1] = [op |-> "get_thread", arg |-> "thread_1", ok |-> TRUE, ret |-> "thread_1"]
        /\ response[r].cookies = [thread_id |-> Some("thread_1"), agent_id |-> Some(ActiveAgentId)]

IsTerminalFrame(frame) == FrameType(frame) \in {"stream_end", "error"}

\* C11: once a frame of type "stream_end" or "error" has been emitted for a
\* request, no further frame of any type is emitted for it, whatever the
\* remote stream does afterwards: a terminal frame is the last frame of its
\* response.
C11_NoFrameAfterTerminal ==
    \A r \in Reqs :
        \A i \in 1..Len(frames[r]) :
            IsTerminalFrame(frames[r][i]) => i = Len(frames[r])

\* C12: the remote calls of a request are, in order, one thread get or
\* create, then create_message on the resolved thread, then create_stream on
\* the thread the message was posted to, then file lookups. A failed thread
\* call is the request's only call (no create_thread after a failed
\* get_thread, no create_message, no create_stream) and is answered with 400
\* carrying the cause; a failed create_message is the last call and is
\* answered with 500; create_stream follows a successful create_message only.
C12_StagesInOrder ==
    \A r \in Reqs :
        LET log == calls[r]
        IN  /\ \A i \in 1..Len(log) :
                /\ i = 1 => log[i].op \in {"get_thread", "create_thread"}
                /\ i = 2 =>
                    /\ log[i].op = "create_message"
                    /\ log[1].ok
                    /\ log[i].arg = log[1].ret
                /\ i = 3 =>
                    /\ log[i].op = "create_stream"
                    /\ log[2].ok
                    /\ log[i].arg = log[2].arg
                /\ i > 3 => log[i].op = "get_file"
            /\ (Len(log) >= 1 /\ ~log[1].ok) =>
                /\ Len(log) = 1
                /\ pc[r] = "failed"
                /\ response[r].status = 400
                /\ \E e \in Errors : response[r].detail = "Thread error: " \o e
            /\ (Len(log) >= 2 /\ ~log[2].ok) =>
                /\ Len(log) = 2
                /\ pc[r] = "failed"
                /\ response[r].status = 500
                /\ \E e \in Errors : response[r].detail = "Message creation error: " \o e

\* A request whose thread was retrieved and whose message post then failed.
C12_Witness ==
    \E r \in Reqs :
        /\ pc[r] = "failed"
        /\ Len(calls[r]) = 2
        /\ calls[r][1].op = "get_thread"
        /\ calls[r][1].ok
        /\ calls[r][2].op = "create_message"
        /\ ~calls[r][2].ok
        /\ response[r].status = 500

\* The step consumes one more event of request r, a completed thread message
\* one of whose file-name lookups raises.
ConsumesFailedLookup(r) ==
    /\ Len(trace'[r]) = Len(trace[r]) + 1
    /\ Last(trace'[r]).event.kind = "message"
    /\ Last(trace'[r]).event.status = "completed"
    /\ Len(calls'[r]) > Len(calls[r])
    /\ ~Last(calls'[r]).ok

\* Every completed_message frame of a response carries one annotation per
\* citation of its message, each with the looked-up file name.
NoPartialAnnotations ==
    \A r \in Reqs :
        \A i \in 1..Len(trace[r]) :
            LET entry == trace[r][i]
            IN  (entry.event.kind = "message" /\ entry.ret # None) =>
                    LET cited == entry.event.file_citation_annotations
                        annotations == FrameData(entry.ret[1]).annotations
                    IN  /\ Len(annotations) = Len(cited)
                        /\ \A k \in 1..Len(cited) :
                            /\ annotations[k].file_citation = cited[k].file_citation
                            /\ annotations[k].file_name = FileNameOf(cited[k].file_citation.file_id)

\* C13: consuming a completed thread message for which the file-name lookup
\* of one of its citations fails adds no frame (no completed_message with
\* fewer annotations, no error frame), raises nothing and leaves the stream
\* open for the next event.
C13_FailedLookupDropsMessageOnly ==
    /\ []NoPartialAnnotations
    /\ [][\A r \in Reqs :
            ConsumesFailedLookup(r) =>
                /\ frames'[r] = frames[r]
                /\ Last(trace'[r]).ret = None
                /\ raised'[r] = None
                /\ pc'[r] = "streaming"]_vars

\* A completed message whose second lookup failed yielded nothing, and the
\* delta after it was translated.
C13_Witness ==
    \E r \in Reqs :
        /\ Len(trace[r]) = 2
        /\ trace[r][1].event.kind = "message"
        /\ trace[r][1].event.status = "completed"
        /\ Len(trace[r][1].event.file_citation_annotations) = 2
        /\ trace[r][1].ret = None
        /\ \E i \in CallsOf(r, "get_file") :
            /\ calls[r][i].ok
            /\ i + 1 \in CallsOf(r, "get_file")
            /\ ~calls[r][i + 1].ok
        /\ trace[r][2].event.kind = "delta"
        /\ Len(frames[r]) = 1
        /\ FrameType(frames[r][1]) = "message"

\* The request's get_result opened a remote stream.
OpenedStream(r) == \E i \in CallsOf(r, "create_stream") : calls[r][i].ok

\* C14: the remote stream handle opened by get_result is released on every
\* exit path: it is open only while the stream is being consumed, and once
\* the generator is finished (after normal completion, after an exception
\* during consumption, after the client disconnected mid-stream) a handle
\* that was opened is released.
C14_StreamReleasedOnEveryExit ==
    \A r \in Reqs :
        /\ stream[r] = "open" => (pc[r] = "streaming" /\ OpenedStream(r))
        /\ (pc[r] \in {"closed", "disconnected"} /\ OpenedStream(r)) =>
            stream[r] = "released"
        /\ ~OpenedStream(r) => stream[r] = "none"

\* The client disconnected after one frame of an open stream.
C14_Witness ==
    \E r \in Reqs :
        /\ pc[r] = "disconnected"
        /\ OpenedStream(r)
        /\ Len(trace[r]) = 1
        /\ Len(frames[r]) = 1
        /\ stream[r] = "released"

\* The frame type each kind of remote event is translated to.
FrameTypeOf(kind) ==
    CASE kind = "delta" -> "message"
      [] kind = "message" -> "completed_message"
      [] kind = "run" -> "thread_run"
      [] kind = "error" -> "stream_end"
      [] kind = "done" -> "stream_end"
      [] OTHER -> "none"
Translated(entry) == entry.ret # None

\* C15: at every moment the frames handed to the client are, in the order
\* of the remote events, exactly the chunks of the events consumed so far
\* that were translated to one (then the error frame, if consumption
\* raised): each event contributes at most one frame, of the type of its
\* kind, no frame is held back when the next event is consumed, and none is
\* reordered or repeated.
C15_OrderPreservingPassThrough ==
    \A r \in Reqs :
        LET produced == SelectSeq(trace[r], Translated)
            tail == IF raised[r] = None THEN 0 ELSE 1
        IN  /\ Len(frames[r]) = Len(produced) + tail
            /\ \A i \in 1..Len(produced) :
                /\ frames[r][i] = produced[i].ret[1]
                /\ FrameType(frames[r][i]) = FrameTypeOf(produced[i].event.kind)

\* A run event, then a completed message with a citation: two frames in
\* that order.
C15_Witness ==
    \E r \in Reqs :
        /\ Len(trace[r]) = 2
        /\ trace[r][1].event.kind = "run"
        /\ trace[r][2].event.kind = "message"
        /\ Len(frames[r]) = 2
        /\ FrameType(frames[r][1]) = "thread_run"
        /\ FrameType(frames[r][2]) = "completed_message"
        /\ Len(FrameData(frames[r][2]).annotations) = 1

\* The thread the first remote call of request r resolved.
HasThread(r) == calls[r] # <<>> /\ calls[r][1].ok
OwnThread(r) == calls[r][1].ret
\* Everything the server holds for request r.
RequestState(r) ==
    <<pc[r], cookies[r], body[r], thread_id[r], agent_id[r], user_message[r],
      response[r], frames[r], trace[r], raised[r], calls[r], stream[r]>>

\* What C16 says of the state of two simultaneous requests: they have
\* different threads, each posts its message to, streams from and sets its
\* cookie from its own thread, and every frame of a response is the chunk of
\* an event of that request's stream (or its own error frame), a thread_run
\* frame naming the request's own thread.
OwnThreadOnly ==
    \A r \in Reqs :
        HasThread(r) =>
            /\ \A q \in Reqs \ {r} : HasThread(q) => OwnThread(q) # OwnThread(r)
            /\ \A i \in CallsOf(r, "create_message") \cup CallsOf(r, "create_stream") :
                calls[r][i].arg = OwnThread(r)
            /\ response[r].status = 200 =>
                response[r].cookies.thread_id = Some(OwnThread(r))
            /\ \A i \in 1..Len(frames[r]) :
                /\ \/ \E j \in 1..Len(trace[r]) : trace[r][j].ret = Some(frames[r][i])
                   \/ /\ raised[r] # None
                      /\ FrameData(frames[r][i]) = [type |-> "error", message |-> raised[r][1]]
                /\ FrameType(frames[r][i]) = "thread_run" =>
                    \E run \in ThreadRunEvents(OwnThread(r)) :
                        Some(frames[r][i]) = on_thread_run(run)

\* C16: under any interleaving of two simultaneous chat requests with
\* different threads, each request uses its own thread and delivers frames
\* of its own stream only, and a step of one request changes nothing the
\* server holds for the other.
C16_RequestsIsolated ==
    /\ []OwnThreadOnly
    /\ [][nreq' = nreq =>
            Cardinality({r \in Reqs : RequestState(r)' # RequestState(r)}) <= 1]_vars

\* Both requests are streaming, each has delivered the run update of its own
\* thread.
C16_Witness ==
    /\ \A r \in Reqs :
        /\ pc[r] = "streaming"
        /\ Len(frames[r]) = 1
        /\ FrameType(frames[r][1]) = "thread_run"
        /\ trace[r][1].event.thread_id = OwnThread(r)
    /\ OwnThread(1) = "thread_2"
    /\ OwnThread(2) = "thread_1"

\* C17 as claimed: the file map is the one loaded at startup, so every
\* fetch-document request is answered as the value UPLOADED_FILE_MAP had at
\* startup answers it, whatever file map the variable holds at the time of
\* the request.
C17_LoadedOnceAtStartup ==
    (fetch.response.status # 0 /\ HoldsFileMap(fetch.environ)) =>
        fetch.response = fetch_document(fetch.file_name, StartupEnv, disk)

\* C17 as amended: fetch_document reads UPLOADED_FILE_MAP at each request
\* and never changes it: a request with a file_name is answered 404 exactly
\* when the name is not a key of the map the variable holds at the time of
\* the request (the empty map when it is unset or not JSON), so a change of
\* the value after startup changes the outcome of later requests.
C17_MapReadAtEachRequest ==
    /\ []((/\ fetch.response.status # 0
           /\ Truthy(fetch.file_name)
           /\ HoldsFileMap(fetch.environ)) =>
            IF HasMember(ClaimedFileMap(fetch.environ), fetch.file_name[1])
            THEN fetch.response.status \in {200, 500}
            ELSE fetch.response.status = 404)
    /\ [][fetch' # fetch => (env' = env /\ fetch'.environ = env)]_vars

\* A name unknown at startup is served after the variable was set.
C17_Witness ==
    /\ fetch.response.status = 200
    /\ fetch.file_name = Some("a.md")
    /\ fetch.environ # StartupEnv
    /\ fetch.environ = env
    /\ HasMember(ClaimedFileMap(env), "a.md")

====
